---- MODULE Spec2Model ----
(***************************************************************************)
(* GeminiLiveService (src/services/geminiLiveService.ts): the live audio   *)
(* session engine.  One service instance, its fields, the browser objects  *)
(* it owns (audio contexts, microphone stream, transport session) and the  *)
(* asynchronous activations of its methods and callbacks.  Every `await`   *)
(* of the source on a browser / network operation is a point where the     *)
(* activation is suspended and other activations or events may run.        *)
(***************************************************************************)
EXTENDS Integers, Sequences, FiniteSets, TLC

\* ---------------------------------------------------------------- bounds
MaxConnects == 1      \* connect() calls in the lifecycle scenario
MaxDisconnects == 2   \* external disconnect() calls in the lifecycle scenario
PlayMsgs == 2         \* inbound messages in the playback scenario
TurnMsgs == 2         \* inbound messages in the transcript scenario
MaxTime == 2          \* ticks of the output sink clock per sink
MaxDur == 2           \* longest decoded buffer, in clock units
MaxFrames == 2        \* capture frames in the capture scenario

Null == 0
\* connect() calls on one service in the reconnection scenario
Reconnects == MaxConnects + 1
Attempts == 1..Reconnects

\* Text is a sequence of characters; " " is whitespace, "a" is not.
Fragments == {<<>>, <<" ">>, <<"a">>}

RECURSIVE TrimLeft(_)
TrimLeft(s) == IF s # <<>> /\ Head(s) = " " THEN TrimLeft(Tail(s)) ELSE s

RECURSIVE TrimRight(_)
TrimRight(s) ==
  IF s # <<>> /\ s[Len(s)] = " " THEN TrimRight(SubSeq(s, 1, Len(s) - 1)) ELSE s

\* String.prototype.trim
Trim(s) == TrimRight(TrimLeft(s))

\* a JavaScript string is truthy iff it is not empty
Truthy(s) == s # <<>>

\* ------------------------------------------------------------- variables
VARIABLES
  this,             \* the fields of the GeminiLiveService instance
  ctxOut,           \* state of the output AudioContext created by attempt k
  ctxIn,            \* state of the input AudioContext created by attempt k
  mic,              \* state of the MediaStream acquired by attempt k
  sess,             \* transport session of attempt k: promise and socket
  currentTime,      \* this.audioContext.currentTime
  nodes,            \* the AudioBufferSourceNodes that can still fire onended
  lastSource,       \* the source scheduled last, and where the one before it ended
  since,            \* what happened since the last source was scheduled
  lastTurn,         \* the last turn-complete handled: buffers before, emissions
  origin,           \* per role: the messages whose fragments are in the buffer
  frames,           \* capture frames: produced, and handed to sendRealtimeInput
  trail,            \* release steps of the teardown activation that ran last
  tasks,            \* suspended activations (async functions at an await)
  connectionState,  \* App: connectionState
  analyser,         \* App: analyser
  calls,            \* callbacks delivered per attempt: onOpen/onClose/onError
  cbObs,            \* observations taken when a terminal callback ran
  hist,             \* caller history: calls made, superseded attempts
  quota             \* the inputs the scenario allows

vars == <<this, ctxOut, ctxIn, mic, sess, currentTime, nodes, lastSource, since, lastTurn,
          origin, frames, trail, tasks, connectionState, analyser, calls, cbObs, hist, quota>>

\* no message has contributed to either transcript buffer
NoOrigin == [user |-> {}, model |-> {}]

\* ------------------------------------------------------- the initial state
\* field initialisers, lines 7-24
ThisInit ==
  [sessionPromise |-> Null, audioContext |-> Null, inputAudioContext |-> Null,
   inputSource |-> Null, processor |-> Null, stream |-> Null,
   nextStartTime |-> 0, scheduledSources |-> {},
   outputGain |-> Null, outputAnalyser |-> Null,
   currentInputTranscription |-> <<>>, currentOutputTranscription |-> <<>>,
   isConnected |-> FALSE]

NoSession == [promise |-> "none", sock |-> "none", onerr |-> FALSE]

\* The objects an atomic stretch of code reads and writes, as one record.
World ==
  [this |-> this, ctxOut |-> ctxOut, ctxIn |-> ctxIn, mic |-> mic,
   sess |-> sess, currentTime |-> currentTime, nodes |-> nodes,
   lastSource |-> lastSource, since |-> since, lastTurn |-> lastTurn,
   origin |-> origin, frames |-> frames, trail |-> trail,
   faults |-> quota.faults,
   track |-> quota.track]

SetWorld(w) ==
  /\ this' = w.this
  /\ ctxOut' = w.ctxOut
  /\ ctxIn' = w.ctxIn
  /\ mic' = w.mic
  /\ sess' = w.sess
  /\ currentTime' = w.currentTime
  /\ nodes' = w.nodes
  /\ lastSource' = w.lastSource
  /\ since' = w.since
  /\ lastTurn' = w.lastTurn
  /\ origin' = w.origin
  /\ frames' = w.frames
  /\ trail' = w.trail

\* Result of running code up to its next await: the world, and where the
\* activation is suspended ("done": the function returned).
Susp(w, pc, at, rej) == [w |-> w, pc |-> pc, at |-> at, rej |-> rej]
Done(w) == Susp(w, "done", Null, FALSE)

\* the function was left by an exception nothing inside it catches
Thrown(w) == Susp(w, "thrown", Null, FALSE)

\* The release operations of a teardown that the environment can make fail:
\* track.stop() (270), processor.disconnect() (275), inputSource.disconnect()
\* (281), inputAudioContext.close() (288), audioContext.close() (297) and
\* session.close() (256).
ReleaseSteps ==
  {"track", "processor", "inputSource", "inputClose", "outputClose", "sessionClose"}

\* a release step of a teardown is performed (recorded in the scenarios
\* that track the order of the steps)
Step(w, s) == IF w.track THEN [w EXCEPT !.trail = Append(@, s)] ELSE w

\* this.isConnected = false (lines 96, 102, 248, 267): the session is marked
\* inactive; a step of the teardown when the session was active
MarkInactive(w) ==
  LET w1 == [w EXCEPT !.this.isConnected = FALSE]
  IN IF w.this.isConnected THEN Step(w1, "inactive") ELSE w1

\* a teardown activation starts: it has performed no step yet
Fresh(w) == [w EXCEPT !.trail = <<>>]

\* ------------------------------------------------------------- cleanup()
\* lines 303-307
CleanupTail(w) ==
  LET w1 == Step([w EXCEPT !.this.scheduledSources = {},
                           !.this.nextStartTime = 0], "reset")
  IN [Step([w1 EXCEPT !.this.outputAnalyser = Null], "tap")
        EXCEPT !.this.outputGain = Null,
               !.this.sessionPromise = Null]

\* line 300, after the await of line 297
AfterCloseOutput(w) ==
  Done(CleanupTail([w EXCEPT !.this.audioContext = Null, !.currentTime = 0]))

\* lines 294-301 up to the await: close() of a running context is pending
\* until the context is closed; close() of a context already being closed
\* rejects, and the rejection is swallowed by the try/catch.
CleanupOutput(w) ==
  LET c == w.this.audioContext IN
  IF c = Null THEN Done(CleanupTail(w))
  ELSE CASE w.ctxOut[c] = "closed" -> AfterCloseOutput(w)
         [] "outputClose" \in w.faults -> Susp(w, "c_out", c, TRUE)
         [] w.ctxOut[c] = "running" ->
              Susp(Step([w EXCEPT !.ctxOut[c] = "closing"], "sink"), "c_out", c, FALSE)
         [] OTHER -> Susp(w, "c_out", c, TRUE)

\* line 291, after the await of line 288
AfterCloseInput(w) == CleanupOutput([w EXCEPT !.this.inputAudioContext = Null])

\* lines 285-292 up to the await
CleanupInput(w) ==
  LET c == w.this.inputAudioContext IN
  IF c = Null THEN CleanupOutput(w)
  ELSE CASE w.ctxIn[c] = "closed" -> AfterCloseInput(w)
         [] "inputClose" \in w.faults -> Susp(w, "c_in", c, TRUE)
         [] w.ctxIn[c] = "running" ->
              Susp(Step([w EXCEPT !.ctxIn[c] = "closing"], "capture"), "c_in", c, FALSE)
         [] OTHER -> Susp(w, "c_in", c, TRUE)

\* lines 267-283: none of the three release operations is inside a try
CleanupStart(w) ==
  LET s == w.this.stream
      w1 == MarkInactive(w)
      w2 == IF s # Null
            THEN Step([w1 EXCEPT !.mic[s] = "stopped", !.this.stream = Null], "mic")
            ELSE w1
      w3 == IF w2.this.processor # Null
            THEN Step([w2 EXCEPT !.this.processor = Null], "capture")
            ELSE w2
      w4 == IF w3.this.inputSource # Null
            THEN Step([w3 EXCEPT !.this.inputSource = Null], "capture")
            ELSE w3
  IN CASE s # Null /\ "track" \in w.faults -> Thrown(w1)
       [] w2.this.processor # Null /\ "processor" \in w.faults -> Thrown(w2)
       [] w3.this.inputSource # Null /\ "inputSource" \in w.faults -> Thrown(w3)
       [] OTHER -> CleanupInput(w4)

\* ---------------------------------------------------------- disconnect()
\* session.close(), line 256: an open socket starts closing; a close() that
\* throws is caught at line 258
SessionClose(w, s) ==
  IF w.sess[s].sock = "open" /\ "sessionClose" \notin w.faults
  THEN Step([w EXCEPT !.sess[s].sock = "closing"], "transport")
  ELSE w

\* lines 253-263, after the await of line 252 on promise s has settled
AfterSession(w, s) ==
  IF w.sess[s].promise = "resolved"
  THEN CleanupStart(SessionClose(w, s))
  ELSE CleanupStart(w)

\* lines 248-252 (and 263 when there is no session promise)
Disconnect(w) ==
  LET w1 == MarkInactive(w) IN
  IF w1.this.sessionPromise # Null
  THEN Susp(w1, "d_session", w1.this.sessionPromise, FALSE)
  ELSE CleanupStart(w1)

\* ------------------------------------------------------------- connect()
\* lines 45-63, and the getUserMedia call of line 66
ConnectSetup(w, k) ==
  [w EXCEPT !.this.currentInputTranscription = <<>>,
            !.this.currentOutputTranscription = <<>>,
            !.origin = NoOrigin,
            !.this.audioContext = k,
            !.ctxOut[k] = "running",
            !.currentTime = 0,
            !.this.inputAudioContext = k,
            !.ctxIn[k] = "running",
            !.this.outputGain = k,
            !.this.outputAnalyser = k]

\* lines 66-116 once getUserMedia resolved: the stream is stored and the
\* transport connection is started
ConnectTransport(w, k) ==
  [w EXCEPT !.this.stream = k,
            !.mic[k] = "live",
            !.this.sessionPromise = k,
            !.sess[k] = [promise |-> "pending", sock |-> "connecting", onerr |-> FALSE]]

\* startAudioInput(), lines 125-162
StartAudioInput(w) ==
  IF \/ w.this.inputAudioContext = Null
     \/ w.this.stream = Null
     \/ w.this.sessionPromise = Null
  THEN w
  ELSE [w EXCEPT !.this.inputSource = w.this.inputAudioContext,
                 !.this.processor = w.this.inputAudioContext]

\* ----------------------------------------------------------- capture side
NoFrames == [made |-> 0, sent |-> {}, dropped |-> {}]

\* onaudioprocess, line 138: is the frame encoded and its transmission
\* chained to the session promise (lines 140-146)
FrameAccepted(w) == w.this.isConnected /\ w.this.sessionPromise # Null

\* mutant: the continuation transmits without looking at isConnected again
Transmit_Unchecked(w, s, n) ==
  [w EXCEPT !.frames.sent =
               @ \cup {[n |-> n, active |-> w.this.isConnected,
                         sock |-> w.sess[s].sock]}]

\* lines 146-154: the continuation chained to session promise s, for frame n
Transmit(w, s, n) ==
  IF w.this.isConnected
  THEN [w EXCEPT !.frames.sent =
                    @ \cup {[n |-> n, active |-> w.this.isConnected,
                              sock |-> w.sess[s].sock]}]
  ELSE [w EXCEPT !.frames.dropped = @ \cup {n}]

\* ---------------------------------------------------------- playback side
\* what happened since the last source was scheduled (lost: a decoded buffer
\* met a released sink)
NoMarks == [failed |-> FALSE, flushed |-> FALSE, dropped |-> FALSE, lost |-> FALSE]

NoSource ==
  [n |-> 0, ctx |-> Null, start |-> 0, dur |-> 0, cursor |-> 0, now |-> 0,
   afterFail |-> FALSE, afterFlush |-> FALSE, prevCtx |-> Null, prevEnd |-> 0,
   run |-> 0, payload |-> <<0, 0>>, prevPayload |-> <<0, 0>>]

\* source.stop() on every scheduled source, lines 236-240
StopSources(w) ==
  {IF x.n \in w.this.scheduledSources THEN [x EXCEPT !.state = "stopped"] ELSE x :
     x \in w.nodes}

\* mutant: the flush forgets to reset the cursor to the sink clock
StopAllScheduledAudio_KeepsCursor(w) ==
  [w EXCEPT !.nodes = StopSources(w),
            !.this.scheduledSources = {},
            !.since.flushed = TRUE]

\* mutant: the flush resets the cursor to zero instead of to the sink clock
StopAllScheduledAudio_ResetsToZero(w) ==
  [w EXCEPT !.nodes = StopSources(w),
            !.this.scheduledSources = {},
            !.since.flushed = TRUE,
            !.this.nextStartTime = 0]

\* stopAllScheduledAudio(), lines 235-245
StopAllScheduledAudio(w) ==
  LET w1 == [w EXCEPT !.nodes = StopSources(w),
                      !.this.scheduledSources = {},
                      !.since.flushed = TRUE]
  IN IF w1.this.audioContext # Null
     THEN [w1 EXCEPT !.this.nextStartTime = w1.currentTime]
     ELSE w1

\* The record of a source started at `start` for d clock units: what was
\* scheduled, the cursor and the sink clock it met, and the source before it.
SourceRecord(w, start, d) ==
  LET prev == w.lastSource
      follows == /\ prev.n > 0
                 /\ prev.ctx = w.this.audioContext
                 /\ ~w.since.flushed
                 /\ w.this.nextStartTime >= w.currentTime
  IN [n |-> prev.n + 1, ctx |-> w.this.audioContext, start |-> start, dur |-> d,
      cursor |-> w.this.nextStartTime, now |-> w.currentTime,
      afterFail |-> w.since.failed, afterFlush |-> w.since.flushed,
      prevCtx |-> prev.ctx, prevEnd |-> prev.start + prev.dur,
      run |-> IF follows THEN prev.run + 1 ELSE 1,
      payload |-> <<0, 0>>, prevPayload |-> prev.payload]

\* mutant: the buffer is started at the sink clock instead of at the cursor
ScheduleSource_AtNow(w, d) ==
  IF w.this.audioContext = Null THEN w
  ELSE LET src == SourceRecord(w, w.currentTime, d)
       IN [w EXCEPT !.lastSource = src,
                    !.nodes = @ \cup {[n |-> src.n, ctx |-> src.ctx,
                                       end |-> src.start + d, state |-> "scheduled"]},
                    !.since = NoMarks,
                    !.this.nextStartTime = src.start + d,
                    !.this.scheduledSources = @ \cup {src.n}]

\* mutant: the cursor is not snapped forward to the sink clock
ScheduleSource_NoSnap(w, d) ==
  IF w.this.audioContext = Null THEN w
  ELSE LET src == SourceRecord(w, w.this.nextStartTime, d)
       IN [w EXCEPT !.lastSource = src,
                    !.nodes = @ \cup {[n |-> src.n, ctx |-> src.ctx,
                                       end |-> src.start + d, state |-> "scheduled"]},
                    !.since = NoMarks,
                    !.this.nextStartTime = src.start + d,
                    !.this.scheduledSources = @ \cup {src.n}]

\* mutant: the buffer is scheduled although the sink has been released
ScheduleSource_OnLostSink(w, d) ==
  LET now == w.currentTime
      cursor == w.this.nextStartTime
      src == SourceRecord(w, IF cursor < now THEN now ELSE cursor, d)
  IN [w EXCEPT !.lastSource = src,
               !.nodes = @ \cup {[n |-> src.n, ctx |-> src.ctx,
                                  end |-> src.start + d, state |-> "scheduled"]},
               !.since = NoMarks,
               !.this.nextStartTime = src.start + d,
               !.this.scheduledSources = @ \cup {src.n}]

\* queueAudioOutput(), lines 212-228, once decodeAudioData resolved with a
\* buffer of duration d.  With no audio context line 212 throws a TypeError,
\* which the catch of line 230 logs.
ScheduleSource(w, d) ==
  IF w.this.audioContext = Null THEN [w EXCEPT !.since.lost = TRUE]
  ELSE LET now == w.currentTime
           cursor == w.this.nextStartTime
           src == SourceRecord(w, IF cursor < now THEN now ELSE cursor, d)
       IN [w EXCEPT !.lastSource = src,
                    !.nodes = @ \cup {[n |-> src.n, ctx |-> src.ctx,
                                       end |-> src.start + d, state |-> "scheduled"]},
                    !.since = NoMarks,
                    !.this.nextStartTime = src.start + d,
                    !.this.scheduledSources = @ \cup {src.n}]

\* mutant: the catch block also resets the timeline cursor
DecodeFailed_ResetsCursor(w) ==
  [w EXCEPT !.since.failed = TRUE, !.this.nextStartTime = w.currentTime]

\* queueAudioOutput(), lines 230-232: decodeAudioData rejected
DecodeFailed(w) == [w EXCEPT !.since.failed = TRUE]

\* mutant: the completion callback forgets to delete the source from the set
OnEnded_KeepsSource(w, x) == [w EXCEPT !.nodes = @ \ {x}]

\* source.onended of node x, lines 226-228; the node fires no more events
OnEnded(w, x) ==
  [w EXCEPT !.nodes = @ \ {x},
            !.this.scheduledSources = @ \ {x.n}]

\* ------------------------------------------------------- transcript side
\* mutant: the user's text is emitted but its buffer is not cleared
FlushInput_KeepsBuffer(w) ==
  LET buf == w.this.currentInputTranscription IN
  IF Truthy(Trim(buf))
  THEN [w EXCEPT !.lastTurn.emitted = Append(@, [text |-> buf, role |-> "user"])]
  ELSE w

\* lines 194-197
FlushInput(w) ==
  LET buf == w.this.currentInputTranscription IN
  IF Truthy(Trim(buf))
  THEN [w EXCEPT !.lastTurn.emitted = Append(@, [text |-> buf, role |-> "user"]),
                 !.this.currentInputTranscription = <<>>,
                 !.origin.user = {}]
  ELSE w

\* lines 198-201
FlushOutput(w) ==
  LET buf == w.this.currentOutputTranscription IN
  IF Truthy(Trim(buf))
  THEN [w EXCEPT !.lastTurn.emitted = Append(@, [text |-> buf, role |-> "model"]),
                 !.this.currentOutputTranscription = <<>>,
                 !.origin.model = {}]
  ELSE w

\* lines 193-202
TurnComplete(w, n) ==
  LET w1 == FlushOutput(FlushInput(
              [w EXCEPT !.lastTurn = [msg |-> n,
                                      user |-> w.this.currentInputTranscription,
                                      model |-> w.this.currentOutputTranscription,
                                      emitted |-> <<>>,
                                      userAfter |-> <<>>,
                                      modelAfter |-> <<>>,
                                      from |-> w.origin]]))
  IN [w1 EXCEPT !.lastTurn.userAfter = w1.this.currentInputTranscription,
                !.lastTurn.modelAfter = w1.this.currentOutputTranscription]

\* lines 184-190, for message number n (the origin of the text is recorded
\* in the scenarios that track it)
Accumulate(w, m, n) ==
  [w EXCEPT !.this.currentInputTranscription =
               IF Truthy(m.inText) THEN @ \o m.inText ELSE @,
            !.origin.user = IF w.track /\ Truthy(m.inText) THEN @ \cup {n} ELSE @,
            !.this.currentOutputTranscription =
               IF Truthy(m.outText) THEN @ \o m.outText ELSE @,
            !.origin.model = IF w.track /\ Truthy(m.outText) THEN @ \cup {n} ELSE @]

\* lines 183-202: the part of handleMessage after the audio parts
MessageTail(w, m, n) ==
  LET w1 == Accumulate(w, m, n) IN
  IF m.turnComplete THEN TurnComplete(w1, n) ELSE w1

\* line 176 and line 206: is part j of m an audio payload that gets decoded
Decodable(w, m, j) ==
  /\ m.parts[j] = "audio"
  /\ w.this.audioContext # Null
  /\ w.this.outputGain # Null

\* lines 174-181: the loop over the parts from part j on, up to the next
\* await of decodeAudioData (line 210)
RECURSIVE PartsFrom(_, _, _, _)
PartsFrom(w, m, n, j) ==
  IF j > Len(m.parts) THEN Done(MessageTail(w, m, n))
  ELSE IF Decodable(w, m, j) THEN Susp(w, "decode", j, FALSE)
  ELSE PartsFrom(w, m, n, j + 1)

\* mutant: the interruption discards the user's partial text as well
HandleMessage_AbandonsBoth(w, m, n) ==
  IF m.interrupted
  THEN Done([StopAllScheduledAudio(w) EXCEPT !.this.currentOutputTranscription = <<>>,
                                             !.this.currentInputTranscription = <<>>,
                                             !.origin = NoOrigin,
                                             !.since.dropped =
                                                @ \/ Truthy(w.this.currentOutputTranscription)])
  ELSE PartsFrom(w, m, n, 1)

\* handleMessage(), lines 165-181, up to its first await (since.dropped:
\* the interruption discarded partial text of the model)
HandleMessage(w, m, n) ==
  IF m.interrupted
  THEN Done([StopAllScheduledAudio(w) EXCEPT !.this.currentOutputTranscription = <<>>,
                                             !.origin.model = {},
                                             !.since.dropped =
                                                @ \/ Truthy(w.this.currentOutputTranscription)])
  ELSE PartsFrom(w, m, n, 1)

PartLists == {<<>>, <<"other">>, <<"audio">>, <<"audio", "audio">>}

\* LiveServerMessage.serverContent, as far as handleMessage reads it
Messages ==
  [interrupted : BOOLEAN, parts : PartLists, inText : Fragments,
   outText : Fragments, turnComplete : BOOLEAN]

NoMsg == [interrupted |-> FALSE, parts |-> <<>>, inText |-> <<>>,
          outText |-> <<>>, turnComplete |-> FALSE]

\* ------------------------------------------------- activations and callbacks
Activation(kind, id, r, m, sup) ==
  [kind |-> kind, id |-> id, pc |-> r.pc, at |-> r.at, rej |-> r.rej,
   m |-> m, sup |-> sup, trail |-> r.w.trail]

\* What is left of activation t after it ran to result r: suspended again,
\* or returned.  connect() continues at line 45 once disconnect() returned,
\* and in its catch block (line 118) when disconnect() threw; an exception
\* ends every other activation.
Continue(t, r) ==
  LET inDisconnect == t.kind = "connect" /\ t.pc # "k_gum" IN
  CASE r.pc = "thrown" ->
         IF inDisconnect
         THEN {[t EXCEPT !.pc = "k_catch", !.at = Null, !.rej = FALSE]}
         ELSE {}
    [] r.pc = "done" ->
         IF inDisconnect
         THEN {[t EXCEPT !.pc = "k_init", !.at = Null, !.rej = FALSE]}
         ELSE {}
    [] OTHER -> {[t EXCEPT !.pc = r.pc, !.at = r.at, !.rej = r.rej, !.trail = r.w.trail]}

\* The awaited promise of a suspended activation has settled.
Ready(t) ==
  CASE t.pc = "d_session" -> sess[t.at].promise \in {"resolved", "rejected"}
    [] t.pc = "c_in" -> t.rej \/ ctxIn[t.at] = "closed"
    [] t.pc = "c_out" -> t.rej \/ ctxOut[t.at] = "closed"
    [] OTHER -> FALSE

\* the continuation of disconnect() / cleanup() after its await
ResumeTeardown(w, t) ==
  CASE t.pc = "d_session" -> AfterSession(w, t.at)
    [] t.pc = "c_in" -> AfterCloseInput(w)
    [] t.pc = "c_out" -> AfterCloseOutput(w)

\* every resource of the engine is released
Released(w) ==
  /\ w.this.stream = Null
  /\ w.this.audioContext = Null
  /\ w.this.inputAudioContext = Null
  /\ w.this.outputAnalyser = Null
  /\ w.this.sessionPromise = Null
  /\ \A k \in Attempts :
       /\ w.mic[k] # "live"
       /\ w.ctxOut[k] # "running"
       /\ w.ctxIn[k] # "running"
       /\ w.sess[k].sock \notin {"connecting", "open"}

\* onopen, lines 88-92 (onOpen() itself is the App's callback)
OnOpenCallback(w) == StartAudioInput([w EXCEPT !.this.isConnected = TRUE])

\* App callbacks passed to connect(), lines 413-428, and what the caller
\* observes when they run
Notify(cb, k, via, w) ==
  /\ calls' = [calls EXCEPT ![cb][k] = @ + 1]
  /\ cbObs' = cbObs \cup {[cb |-> cb, k |-> k, via |-> via, released |-> Released(w)]}
  /\ connectionState' = CASE cb = "onOpen" -> "CONNECTED"
                          [] cb = "onClose" -> "DISCONNECTED"
                          [] OTHER -> "ERROR"
  /\ analyser' = IF cb = "onOpen" THEN w.this.outputAnalyser ELSE Null

\* App.handleDisconnect, lines 448-453, after disconnect() returned
DisconnectReturned(t) ==
  /\ connectionState' = "DISCONNECTED"
  /\ analyser' = Null
  /\ hist' = [hist EXCEPT !.superseded = @ \cup t.sup, !.discsDone = @ + 1]

\* App.handleDisconnect, line 446: disconnect() rejected, the lines after
\* the await do not run
DisconnectThrew(t) ==
  /\ hist' = [hist EXCEPT !.superseded = @ \cup t.sup, !.discsDone = @ + 1,
                          !.discThrew = TRUE]
  /\ UNCHANGED <<connectionState, analyser>>

\* ------------------------------------------------------------------ actions
\* App.handleConnect line 402, and connect() lines 41-43
CallConnect ==
  /\ hist.attempts < quota.connects
  /\ LET k == hist.attempts + 1
         r == Disconnect(Fresh(World))
         t == Activation("connect", k, r, NoMsg, {})
     IN /\ SetWorld(r.w)
        /\ tasks' = tasks \cup Continue(t, r)
        /\ hist' = [hist EXCEPT !.attempts = k, !.lastCall = "connect"]
  /\ connectionState' = "CONNECTING"
  /\ UNCHANGED <<analyser, calls, cbObs, quota>>

\* a call of disconnect() by the owner of the service, lines 247-264
CallDisconnect ==
  /\ hist.discs < quota.disconnects
  /\ LET r == Disconnect(Fresh(World))
         t == Activation("disconnect", hist.discs + 1, r, NoMsg,
                         {c.id : c \in {x \in tasks : x.kind = "connect"}})
         h == [hist EXCEPT !.discs = @ + 1, !.lastCall = "disconnect",
                           !.discFollowed = TRUE]
     IN /\ SetWorld(r.w)
        /\ tasks' = tasks \cup Continue(t, r)
        /\ CASE r.pc = "done" ->
                  /\ connectionState' = "DISCONNECTED"
                  /\ analyser' = Null
                  /\ hist' = [h EXCEPT !.superseded = @ \cup t.sup, !.discsDone = @ + 1]
             [] r.pc = "thrown" ->
                  /\ hist' = [h EXCEPT !.superseded = @ \cup t.sup, !.discsDone = @ + 1,
                                       !.discThrew = TRUE]
                  /\ UNCHANGED <<connectionState, analyser>>
             [] OTHER ->
                  /\ hist' = h
                  /\ UNCHANGED <<connectionState, analyser>>
  /\ UNCHANGED <<calls, cbObs, quota>>

\* disconnect() / cleanup() continue after an await (lines 252, 288, 297)
Resume(t) ==
  /\ t.pc \in {"d_session", "c_in", "c_out"}
  /\ Ready(t)
  /\ LET r == ResumeTeardown([World EXCEPT !.trail = t.trail], t)
     IN /\ SetWorld(r.w)
        /\ tasks' = (tasks \ {t}) \cup Continue(t, r)
        /\ CASE r.pc = "done" /\ t.kind = "disconnect" -> DisconnectReturned(t)
             [] r.pc = "thrown" /\ t.kind = "disconnect" -> DisconnectThrew(t)
             [] OTHER -> UNCHANGED <<connectionState, analyser, hist>>
  /\ UNCHANGED <<calls, cbObs, quota>>

\* connect() lines 45-66, up to the await of getUserMedia
ConnectInit(t) ==
  /\ t.kind = "connect" /\ t.pc = "k_init"
  /\ SetWorld(ConnectSetup(World, t.id))
  /\ tasks' = (tasks \ {t}) \cup {[t EXCEPT !.pc = "k_gum"]}
  /\ UNCHANGED <<connectionState, analyser, calls, cbObs, hist, quota>>

\* getUserMedia resolves: connect() lines 66-116
GetUserMediaResolve(t) ==
  /\ t.kind = "connect" /\ t.pc = "k_gum"
  /\ SetWorld(ConnectTransport(World, t.id))
  /\ tasks' = tasks \ {t}
  /\ UNCHANGED <<connectionState, analyser, calls, cbObs, hist, quota>>

\* mutant: the catch of connect() reports the error and releases nothing
GetUserMediaReject_NoCleanup(t) ==
  /\ t.kind = "connect" /\ t.pc = "k_gum"
  /\ Notify("onError", t.id, "setup", World)
  /\ tasks' = tasks \ {t}
  /\ UNCHANGED <<this, ctxOut, ctxIn, mic, sess, currentTime, nodes, lastSource,
                 since, lastTurn, origin, frames, trail, hist, quota>>

\* getUserMedia rejects: the catch of connect(), lines 118-122 (which is
\* also where a disconnect() that threw at line 43 ends up)
GetUserMediaReject(t) ==
  /\ t.kind = "connect" /\ t.pc \in {"k_gum", "k_catch"}
  /\ LET r == CleanupStart(Fresh(World))
     IN /\ Notify("onError", t.id, IF t.pc = "k_gum" THEN "setup" ELSE "teardown", World)
        /\ SetWorld(r.w)
        /\ tasks' = (tasks \ {t}) \cup Continue([t EXCEPT !.kind = "setup"], r)
  /\ UNCHANGED <<hist, quota>>

\* an AudioContext whose close() was called becomes closed
InputContextClosed(k) ==
  /\ ctxIn[k] = "closing"
  /\ ctxIn' = [ctxIn EXCEPT ![k] = "closed"]
  /\ UNCHANGED <<this, ctxOut, mic, sess, currentTime, nodes, lastSource, since, lastTurn,
                 origin, frames, trail, tasks, connectionState, analyser, calls, cbObs, hist, quota>>

\* (the sources of a closed context fire no ended event)
OutputContextClosed(k) ==
  /\ ctxOut[k] = "closing"
  /\ ctxOut' = [ctxOut EXCEPT ![k] = "closed"]
  /\ nodes' = {x \in nodes : x.ctx # k}
  /\ UNCHANGED <<this, ctxIn, mic, sess, currentTime, lastSource, since, lastTurn,
                 origin, frames, trail, tasks, connectionState, analyser, calls, cbObs, hist, quota>>

\* the transport opens: the session promise resolves, onopen runs (88-92)
Open(k) ==
  /\ sess[k].sock = "connecting" /\ sess[k].promise = "pending"
  /\ LET w == OnOpenCallback([World EXCEPT !.sess[k].sock = "open",
                                           !.sess[k].promise = "resolved"])
     IN /\ Notify("onOpen", k, "onopen", w)
        /\ SetWorld(w)
  /\ hist' = [hist EXCEPT !.discFollowed = FALSE]
  /\ UNCHANGED <<tasks, quota>>

\* the transport's close event: onclose, lines 94-99
CloseEvent(k) ==
  /\ sess[k].sock \in {"open", "closing", "failed"}
  /\ LET w == MarkInactive(Fresh([World EXCEPT !.sess[k].sock = "closed"]))
         r == CleanupStart(w)
     IN /\ Notify("onClose", k, "onclose", w)
        /\ SetWorld(r.w)
        /\ tasks' = tasks \cup Continue(Activation("onclose", k, r, NoMsg, {}), r)
  /\ UNCHANGED <<hist, quota>>

\* the transport's error event: onerror, lines 100-105
TransportError(k) ==
  /\ sess[k].sock \in {"connecting", "open", "failed"}
  /\ ~sess[k].onerr
  /\ LET w == MarkInactive(Fresh([World EXCEPT !.sess[k].sock = "failed",
                                                !.sess[k].onerr = TRUE]))
         r == CleanupStart(w)
     IN /\ Notify("onError", k, "onerror", w)
        /\ SetWorld(r.w)
        /\ tasks' = tasks \cup Continue(Activation("onerror", k, r, NoMsg, {}), r)
  /\ UNCHANGED <<hist, quota>>

\* the session promise rejects: the handler of lines 110-116
Reject(k) ==
  /\ sess[k].promise = "pending"
  /\ LET w == [World EXCEPT !.sess[k].promise = "rejected",
                            !.sess[k].sock = IF @ = "connecting" THEN "failed" ELSE @]
         r == CleanupStart(Fresh(w))
     IN IF w.this.inputAudioContext # Null
        THEN /\ Notify("onError", k, "catch", w)
             /\ SetWorld(r.w)
             /\ tasks' = tasks \cup Continue(Activation("catch", k, r, NoMsg, {}), r)
        ELSE /\ SetWorld(w)
             /\ UNCHANGED <<tasks, connectionState, analyser, calls, cbObs>>
  /\ UNCHANGED <<hist, quota>>

\* onmessage, line 93: handleMessage runs up to its first await (flushAt:
\* the number of the last message that was an interruption, in the
\* scenarios that track it)
Message(k, m) ==
  /\ sess[k].sock \in {"open", "closing"}
  /\ hist.msgs < quota.msgs
  /\ LET n == hist.msgs + 1
         r == HandleMessage(World, m, n)
     IN /\ SetWorld(r.w)
        /\ tasks' = tasks \cup Continue(Activation("message", n, r, m, {}), r)
  /\ hist' = [hist EXCEPT !.msgs = @ + 1,
                          !.flushAt = IF quota.track /\ m.interrupted
                                      THEN hist.msgs + 1 ELSE @]
  /\ UNCHANGED <<connectionState, analyser, calls, cbObs, quota>>

\* lines 212-228 and the rest of handleMessage, after decodeAudioData
\* resolved with a buffer of duration d
AfterDecode(w, t, d) ==
  LET w1 == ScheduleSource(w, d)
      w2 == IF w.track /\ w1.lastSource.n # w.lastSource.n
            THEN [w1 EXCEPT !.lastSource.payload = <<t.id, t.at>>]  \* part t.at of message t.id
            ELSE w1
  IN PartsFrom(w2, t.m, t.id, t.at + 1)

\* lines 230-232 and the rest of handleMessage, after decodeAudioData rejected
AfterDecodeError(w, t) == PartsFrom(DecodeFailed(w), t.m, t.id, t.at + 1)

DecodeResolved(t, d) ==
  /\ t.pc = "decode"
  /\ LET r == AfterDecode(World, t, d)
     IN /\ SetWorld(r.w)
        /\ tasks' = (tasks \ {t}) \cup Continue(t, r)
  /\ UNCHANGED <<connectionState, analyser, calls, cbObs, hist, quota>>

DecodeRejected(t) ==
  /\ t.pc = "decode"
  /\ LET r == AfterDecodeError(World, t)
     IN /\ SetWorld(r.w)
        /\ tasks' = (tasks \ {t}) \cup Continue(t, r)
  /\ UNCHANGED <<connectionState, analyser, calls, cbObs, hist, quota>>

\* the capture processor delivers a frame: onaudioprocess, lines 137-158,
\* up to the continuation chained to the session promise
AudioProcess ==
  /\ this.processor # Null
  /\ ctxIn[this.processor] = "running"
  /\ frames.made < quota.frames
  /\ LET n == frames.made + 1
         w == [World EXCEPT !.frames.made = n]
     IN /\ SetWorld(w)
        /\ tasks' = IF FrameAccepted(w)
                    THEN tasks \cup {Activation("frame", n,
                                        Susp(w, "send", w.this.sessionPromise, FALSE),
                                        NoMsg, {})}
                    ELSE tasks
  /\ UNCHANGED <<connectionState, analyser, calls, cbObs, hist, quota>>

\* the session promise a frame waits for has settled: lines 146-157 (a
\* rejection goes to the silent catch)
SendFrame(t) ==
  /\ t.pc = "send"
  /\ sess[t.at].promise \in {"resolved", "rejected"}
  /\ SetWorld(IF sess[t.at].promise = "resolved"
              THEN Transmit(World, t.at, t.id) ELSE World)
  /\ tasks' = tasks \ {t}
  /\ UNCHANGED <<connectionState, analyser, calls, cbObs, hist, quota>>

\* the output sink's clock advances
Tick ==
  /\ this.audioContext # Null
  /\ ctxOut[this.audioContext] = "running"
  /\ currentTime < MaxTime
  /\ currentTime' = currentTime + 1
  /\ UNCHANGED <<this, ctxOut, ctxIn, mic, sess, nodes, lastSource, since, lastTurn,
                 origin, frames, trail, tasks, connectionState, analyser, calls, cbObs, hist, quota>>

\* a source's ended event: it played to its end, or it was stopped
Ended(x) ==
  /\ \/ x.state = "stopped"
     \/ /\ x.ctx = this.audioContext
        /\ ctxOut[x.ctx] = "running"
        /\ currentTime >= x.end
  /\ SetWorld(OnEnded(World, x))
  /\ UNCHANGED <<tasks, connectionState, analyser, calls, cbObs, hist, quota>>

\* --------------------------------------------------------- specifications
InitWith(q) ==
  /\ this = ThisInit
  /\ ctxOut = [k \in Attempts |-> "none"]
  /\ ctxIn = [k \in Attempts |-> "none"]
  /\ mic = [k \in Attempts |-> "none"]
  /\ sess = [k \in Attempts |-> NoSession]
  /\ currentTime = 0
  /\ nodes = {}
  /\ lastSource = NoSource
  /\ since = NoMarks
  /\ lastTurn = [msg |-> 0, user |-> <<>>, model |-> <<>>, emitted |-> <<>>,
                 userAfter |-> <<>>, modelAfter |-> <<>>, from |-> NoOrigin]
  /\ origin = NoOrigin
  /\ frames = NoFrames
  /\ trail = <<>>
  /\ tasks = {}
  /\ connectionState = "DISCONNECTED"
  /\ analyser = Null
  /\ calls = [cb \in {"onOpen", "onClose", "onError"} |-> [k \in Attempts |-> 0]]
  /\ cbObs = {}
  /\ hist = [attempts |-> 0, discs |-> 0, discsDone |-> 0, msgs |-> 0,
             lastCall |-> "none", superseded |-> {}, discFollowed |-> FALSE,
             discThrew |-> FALSE, flushAt |-> 0]
  /\ quota = q

\* messages that carry audio parts or an interruption, and no text
AudioMessages ==
  {m \in Messages : m.inText = <<>> /\ m.outText = <<>> /\ ~m.turnComplete}

\* messages that carry transcription fragments, turn-complete or an
\* interruption, and at most one audio part
TextMessages == {m \in Messages : m.parts \in {<<>>, <<"audio">>}}

\* a session is set up: connect() up to the transport's open event
Establish ==
  \/ CallConnect
  \/ \E t \in tasks : ConnectInit(t)
  \/ \E t \in tasks : GetUserMediaResolve(t)
  \/ \E k \in Attempts : Open(k)

\* a session is torn down: the transport's close event, and the
\* continuations of disconnect() and cleanup()
Teardown ==
  \/ \E k \in Attempts : CloseEvent(k)
  \/ \E t \in tasks : Resume(t)
  \/ \E k \in Attempts : InputContextClosed(k)
  \/ \E k \in Attempts : OutputContextClosed(k)

\* the failures of the microphone and of the transport
Failures ==
  \/ \E t \in tasks : GetUserMediaReject(t)
  \/ \E k \in Attempts : TransportError(k)
  \/ \E k \in Attempts : Reject(k)

\* The lifecycle scenario: connects, disconnects and failures in any order.
Init ==
  InitWith([connects |-> MaxConnects, disconnects |-> MaxDisconnects, msgs |-> 0,
            frames |-> 0, faults |-> {},
            track |-> FALSE])

Next == Establish \/ Teardown \/ CallDisconnect \/ Failures

Spec == Init /\ [][Next]_vars

\* The playback scenario: one session from connect() to its teardown by the
\* transport's close event, audio messages, interruptions and the sink clock.
InitPlay ==
  InitWith([connects |-> 1, disconnects |-> 0, msgs |-> PlayMsgs, frames |-> 0, faults |-> {},
            track |-> FALSE])

NextPlay ==
  \/ Establish
  \/ Teardown
  \/ \E k \in Attempts, m \in AudioMessages : Message(k, m)
  \/ \E t \in tasks, d \in 1..MaxDur : DecodeResolved(t, d)
  \/ \E t \in tasks : DecodeRejected(t)
  \/ Tick
  \/ \E x \in nodes : Ended(x)

SpecPlay == InitPlay /\ [][NextPlay]_vars

\* The ordering scenario: one session and audio messages whose decodes
\* complete in any order; every source records the payload it plays, and the
\* sink clock stands still.
InitOrder ==
  InitWith([connects |-> 1, disconnects |-> 0, msgs |-> PlayMsgs, frames |-> 0,
            faults |-> {}, track |-> TRUE])

NextOrder ==
  \/ Establish
  \/ Teardown
  \/ \E k \in Attempts, m \in AudioMessages : Message(k, m)
  \/ \E t \in tasks, d \in 1..MaxDur : DecodeResolved(t, d)
  \/ \E t \in tasks : DecodeRejected(t)

SpecOrder == InitOrder /\ [][NextOrder]_vars

\* The transcript scenario: one session from connect() to its teardown by
\* the transport's close event, and messages with transcription fragments
\* and turn boundaries; the sink clock stands still.
InitTurn ==
  InitWith([connects |-> 1, disconnects |-> 0, msgs |-> TurnMsgs, frames |-> 0, faults |-> {},
            track |-> FALSE])

NextTurn ==
  \/ Establish
  \/ Teardown
  \/ \E k \in Attempts, m \in TextMessages : Message(k, m)
  \/ \E t \in tasks : DecodeResolved(t, 1)
  \/ \E t \in tasks : DecodeRejected(t)

SpecTurn == InitTurn /\ [][NextTurn]_vars

\* The capture scenario: one session, capture frames, and its end by a
\* disconnect() call, the transport's close event or a transport error.
InitCapture ==
  InitWith([connects |-> 1, disconnects |-> 1, msgs |-> 0, frames |-> MaxFrames,
            faults |-> {},
            track |-> FALSE])

NextCapture ==
  \/ Establish
  \/ Teardown
  \/ CallDisconnect
  \/ \E k \in Attempts : TransportError(k)
  \/ AudioProcess
  \/ \E t \in tasks : SendFrame(t)

SpecCapture == InitCapture /\ [][NextCapture]_vars

\* The late-fragment scenario: the transcript scenario, with the message
\* every fragment came in recorded.
InitLate ==
  InitWith([connects |-> 1, disconnects |-> 0, msgs |-> TurnMsgs, frames |-> 0,
            faults |-> {}, track |-> TRUE])

SpecLate == InitLate /\ [][NextTurn]_vars

\* The setup scenario: one connect() whose microphone request is granted or
\* refused, with disconnect() calls at any moment.
InitSetup ==
  InitWith([connects |-> 1, disconnects |-> MaxDisconnects, msgs |-> 0, frames |-> 0,
            faults |-> {}, track |-> FALSE])

NextSetup ==
  \/ Establish
  \/ Teardown
  \/ CallDisconnect
  \/ \E t \in tasks : GetUserMediaReject(t)

SpecSetup == InitSetup /\ [][NextSetup]_vars

\* The teardown scenario: the lifecycle scenario, with the release steps of
\* every teardown activation recorded in the order they are performed.
InitTeardown ==
  InitWith([connects |-> 1, disconnects |-> MaxDisconnects, msgs |-> 0, frames |-> 0,
            faults |-> {}, track |-> TRUE])

SpecTeardown == InitTeardown /\ [][Next]_vars

\* The fault scenario: one session and disconnect() calls, where at most
\* one of the release operations of the teardown fails.
InitFault ==
  \E fs \in {{}} \cup {{f} : f \in ReleaseSteps} :
    InitWith([connects |-> 1, disconnects |-> MaxDisconnects, msgs |-> 0,
              frames |-> 0, faults |-> fs, track |-> FALSE])

NextFault == Establish \/ Teardown \/ CallDisconnect

SpecFault == InitFault /\ [][NextFault]_vars

\* The reconnection scenario: connect() is called again on the same
\* service, while the transport events and the promise rejection of the
\* session it supersedes may still be delivered.
InitReconnect ==
  InitWith([connects |-> Reconnects, disconnects |-> 0, msgs |-> 0, frames |-> 0,
            faults |-> {}, track |-> FALSE])

NextReconnect ==
  \/ Establish
  \/ Teardown
  \/ \E k \in Attempts : Reject(k)

SpecReconnect == InitReconnect /\ [][NextReconnect]_vars

\* ------------------------------------------------------------------ claims
\* every resource of a connected session is still held
Held(w) ==
  /\ w.this.stream # Null /\ w.mic[w.this.stream] = "live"
  /\ w.this.audioContext # Null /\ w.ctxOut[w.this.audioContext] = "running"
  /\ w.this.inputAudioContext # Null /\ w.ctxIn[w.this.inputAudioContext] = "running"
  /\ w.this.outputAnalyser # Null
  /\ w.this.sessionPromise # Null /\ w.sess[w.this.sessionPromise].sock = "open"

\* no call of connect() or disconnect() by the owner is still running
CallsReturned ==
  /\ hist.discsDone = hist.discs
  /\ ~\E t \in tasks : t.kind \in {"connect", "disconnect"}

\* C1: when the owner's last call was disconnect() (called twice in a row, or
\* while connect() was pending) and every connect() and disconnect() call has
\* returned, all resources are released: no live microphone stream, both
\* audio contexts closed and null, no open transport session, no analyser.
C1_DisconnectReleasesAll ==
  (hist.lastCall = "disconnect" /\ CallsReturned) => Released(World)

\* C2: for a connection attempt that never reached the connected state,
\* onError is invoked at most once, also when both the transport's onerror
\* callback and the rejection of the session promise fire.
C2_OnErrorOnce ==
  \A k \in Attempts : calls["onOpen"][k] = 0 => calls["onError"][k] <= 1

\* C3: when onClose / onError is invoked for a terminal close or a terminal
\* error of the transport, cleanup has completed: all resources are released.
C3_CleanupBeforeNotify ==
  \A o \in cbObs : o.via \in {"onclose", "onerror"} => o.released

\* C4: whenever the observed connection state is CONNECTED (onOpen delivered
\* and no onClose / onError / disconnect() call since), the microphone stream,
\* both audio contexts, the analysis tap and the transport session are held.
C4_ConnectedHoldsResources ==
  (connectionState = "CONNECTED" /\ ~hist.discFollowed) => Held(World)

\* C5: once a disconnect() that was called while connect() attempt k was
\* pending has returned, attempt k never makes the session active, keeps no
\* microphone stream and leaves no transport connection open.
C5_SupersededConnectAbandoned ==
  \A k \in hist.superseded :
    /\ ~this.isConnected
    /\ mic[k] # "live"
    /\ sess[k].sock \notin {"connecting", "open"}

\* C6: immediately after an interruption signal is handled, the scheduled
\* set is empty and the timeline cursor equals the output sink's current
\* time, however many buffers were pending.
C6_InterruptionFlushes ==
  [][hist'.msgs # hist.msgs =>
       \A k \in Attempts, m \in Messages :
         (m.interrupted /\ Message(k, m)) =>
           /\ this'.scheduledSources = {}
           /\ this'.audioContext # Null => this'.nextStartTime = currentTime']_vars

\* an interruption has just flushed two pending buffers, with the cursor
\* ahead of the sink clock before and at the sink clock after
C6_Witness ==
  /\ since.flushed
  /\ Cardinality({x \in nodes : x.state = "stopped" /\ x.end > currentTime}) >= 2
  /\ this.scheduledSources = {}
  /\ currentTime > 0
  /\ this.nextStartTime = currentTime

\* the source scheduled last went to the same sink as the one before it,
\* with no interruption in between and the cursor not behind the sink clock
Consecutive ==
  /\ lastSource.n >= 2
  /\ lastSource.ctx = lastSource.prevCtx
  /\ ~lastSource.afterFlush
  /\ lastSource.cursor >= lastSource.now

\* C7: buffers scheduled one after the other with no starvation and no
\* interruption in between start exactly where the previous one ends:
\* the start times are cursor0, cursor0 + d1, cursor0 + d1 + d2, ...
C7_Contiguous == Consecutive => lastSource.start = lastSource.prevEnd

\* a third buffer in a row queued back to back, ahead of the sink clock
C7_Witness ==
  /\ Consecutive
  /\ lastSource.run >= 3
  /\ lastSource.start > lastSource.now
  /\ lastSource.now > 0

\* the text a turn boundary emits for a role whose buffer holds buf
ExpectedTurn(buf, role) ==
  IF Trim(buf) # <<>> THEN <<[text |-> buf, role |-> role]>> ELSE <<>>

Blank(buf) == buf # <<>> /\ Trim(buf) = <<>>

\* C9: when a turn-complete signal is handled and a role's accumulated text
\* is whitespace-only, nothing is emitted for that role and that role's
\* buffer is empty afterwards.
C9_BlankTurnCleared ==
  lastTurn.msg # 0 =>
    /\ Blank(lastTurn.user) =>
         /\ \A e \in DOMAIN lastTurn.emitted : lastTurn.emitted[e].role # "user"
         /\ lastTurn.userAfter = <<>>
    /\ Blank(lastTurn.model) =>
         /\ \A e \in DOMAIN lastTurn.emitted : lastTurn.emitted[e].role # "model"
         /\ lastTurn.modelAfter = <<>>

\* C10: a decode failure on an audio payload leaves the session connected
\* and the cursor and the scheduled set unchanged, and the next valid
\* payload is scheduled at the cursor, contiguous with the buffer before
\* the failure, the cursor advancing by its duration.
C10_DecodeFailureSkipped ==
  /\ [][\A t \in tasks \ tasks' : DecodeRejected(t) =>
          /\ this'.isConnected = this.isConnected
          /\ this'.nextStartTime = this.nextStartTime
          /\ this'.scheduledSources = this.scheduledSources
          /\ sess' = sess]_vars
  /\ [][\A t \in tasks \ tasks', d \in 1..MaxDur :
          (since.failed /\ this.audioContext # Null /\ DecodeResolved(t, d)) =>
            /\ lastSource'.start =
                 IF this.nextStartTime < currentTime THEN currentTime
                 ELSE this.nextStartTime
            /\ this'.nextStartTime = lastSource'.start + d
            /\ this'.scheduledSources = this.scheduledSources \cup {lastSource'.n}]_vars
  /\ []((lastSource.afterFail /\ Consecutive) => lastSource.start = lastSource.prevEnd)

\* a payload failed to decode between two buffers that play back to back
C10_Witness ==
  /\ lastSource.afterFail
  /\ Consecutive
  /\ lastSource.start > lastSource.now
  /\ this.isConnected

\* C11: sendRealtimeInput is never called at a moment when the session is
\* not active (isConnected false); a frame produced while active whose
\* transmission comes up after the session left the active state is
\* dropped, not transmitted and not kept.
C11_SendOnlyWhileActive ==
  /\ [](\A f \in frames.sent : f.active)
  /\ [][\A t \in tasks :
          (SendFrame(t) /\ ~this.isConnected) =>
            /\ frames'.sent = frames.sent
            /\ ~\E u \in tasks' : u.kind = "frame" /\ u.id = t.id]_vars

\* one frame was transmitted while the session was active, and a later one,
\* produced while active, was dropped after the session became inactive
C11_Witness ==
  /\ \E f \in frames.sent : f.n = 1 /\ f.sock = "open"
  /\ 2 \in frames.dropped
  /\ ~this.isConnected

\* connect() attempt k failed to acquire the microphone
MicFailed(k) == \E o \in cbObs : o.via = "setup" /\ o.k = k

\* C12: when microphone acquisition fails during connect(), no transport
\* connection is attempted for that call, onError is invoked exactly once,
\* onOpen never, and once the catch block's cleanup has finished the audio
\* contexts the call created are released and their handles null.
C12_MicFailureAborts ==
  \A k \in Attempts : MicFailed(k) =>
    /\ sess[k] = NoSession
    /\ calls["onError"][k] = 1
    /\ calls["onOpen"][k] = 0
    /\ (~\E t \in tasks : t.kind = "setup" /\ t.id = k) =>
         /\ ctxOut[k] # "running" /\ ctxIn[k] # "running"
         /\ this.audioContext = Null /\ this.inputAudioContext = Null

\* the microphone was refused, and the cleanup of the catch block has closed
\* both audio contexts of the attempt
C12_Witness ==
  /\ MicFailed(1)
  /\ ~\E t \in tasks : t.kind = "setup"
  /\ ctxOut[1] = "closed" /\ ctxIn[1] = "closed"
  /\ connectionState = "ERROR"

\* every handle of the service is null
HandlesNull ==
  /\ this.stream = Null /\ this.processor = Null /\ this.inputSource = Null
  /\ this.inputAudioContext = Null /\ this.audioContext = Null
  /\ this.outputAnalyser = Null /\ this.outputGain = Null
  /\ this.sessionPromise = Null

\* every resource is released, but for the one whose release failed
ReleasedButFaulty ==
  \A k \in Attempts :
    /\ "track" \notin quota.faults => mic[k] # "live"
    /\ "inputClose" \notin quota.faults => ctxIn[k] # "running"
    /\ "outputClose" \notin quota.faults => ctxOut[k] # "running"
    /\ "sessionClose" \notin quota.faults => sess[k].sock \notin {"connecting", "open"}

\* C13: when the release of one resource fails during a teardown,
\* disconnect() does not propagate the failure to its caller, and once the
\* disconnect() calls of an established session have ended all the other
\* resources are released and every handle is null.
C13_TeardownFaultTolerant ==
  /\ ~hist.discThrew
  /\ (hist.lastCall = "disconnect" /\ CallsReturned /\ hist.superseded = {}) =>
       HandlesNull /\ ReleasedButFaulty

\* this step handles a message that carries the interruption signal
InterruptionStep ==
  /\ hist'.msgs # hist.msgs
  /\ \E k \in Attempts, m \in Messages : m.interrupted /\ Message(k, m)

\* C14 as stated: while the session is active the timeline cursor never
\* decreases, whatever the operation: enqueue, snap-forward or flush.
C14_CursorMonotone ==
  [][(this.isConnected /\ this'.isConnected) =>
        this'.nextStartTime >= this.nextStartTime]_vars

\* C14 amended: while the session is active the timeline cursor never
\* decreases across an enqueue or a snap-forward; an interruption flush sets
\* it to the sink's current time, which is lower than the cursor when
\* buffers were queued ahead of the clock.
C14_CursorMonotoneButFlush ==
  [][(this.isConnected /\ this'.isConnected) =>
        IF InterruptionStep
        THEN this'.nextStartTime = currentTime'
        ELSE this'.nextStartTime >= this.nextStartTime]_vars

\* on an active session a buffer was scheduled after a snap-forward, and an
\* interruption then took the cursor back from the buffer's end to the clock
C14_Witness ==
  /\ this.isConnected
  /\ lastSource.n >= 2
  /\ lastSource.cursor < lastSource.now
  /\ since.flushed
  /\ 0 < this.nextStartTime
  /\ this.nextStartTime < lastSource.start + lastSource.dur

\* C15: whenever a buffer is scheduled, its start time is at least the
\* cursor and at least the sink's current time of that moment (the later of
\* the two), and the cursor afterwards is that start time plus the buffer's
\* duration.
C15_StartAtCursor ==
  [][lastSource'.n # lastSource.n =>
       \A t \in tasks \ tasks', d \in 1..MaxDur :
         DecodeResolved(t, d) =>
           /\ lastSource'.start >= this.nextStartTime
           /\ lastSource'.start >= currentTime
           /\ lastSource'.start \in {this.nextStartTime, currentTime}
           /\ lastSource'.dur = d
           /\ this'.nextStartTime = lastSource'.start + d]_vars

\* a buffer of the longest duration arrived after the previous one had run
\* out: it starts at the sink clock, and the cursor is at its end
C15_Witness ==
  /\ lastSource.n >= 2
  /\ 0 < lastSource.cursor /\ lastSource.cursor < lastSource.now
  /\ lastSource.start = lastSource.now
  /\ lastSource.dur = MaxDur
  /\ since = NoMarks
  /\ this.nextStartTime = lastSource.start + MaxDur

\* this step runs the tail of cleanup() (lines 303-307)
CleanupTailStep == this.outputGain # Null /\ this'.outputGain = Null

\* C16: a buffer enters the scheduled set once, as a new source, and leaves
\* it once: on its own completion notification, or with all the others on an
\* interruption or at the end of a teardown.  After each of these it is not
\* in the set, and the completion notification of a buffer that was already
\* force-removed changes nothing.
C16_LeavesOnce ==
  [][/\ \A x \in nodes : (x \notin nodes' /\ Ended(x)) =>
          /\ x.n \notin this'.scheduledSources
          /\ this.scheduledSources \ this'.scheduledSources \subseteq {x.n}
          /\ x.n \notin this.scheduledSources => this' = this
     /\ InterruptionStep => this'.scheduledSources = {}
     /\ CleanupTailStep => this'.scheduledSources = {}
     /\ \A n \in this'.scheduledSources \ this.scheduledSources : n > lastSource.n
     /\ this.scheduledSources \ this'.scheduledSources # {} =>
          \/ CleanupTailStep
          \/ InterruptionStep
          \/ \E x \in nodes : x \notin nodes' /\ Ended(x)]_vars

\* of two buffers the second was stopped by an interruption before its end,
\* and the completion notifications of both have been delivered
C16_Witness ==
  /\ this.isConnected
  /\ lastSource.n >= 2
  /\ since.flushed
  /\ currentTime < lastSource.start + lastSource.dur
  /\ nodes = {}
  /\ this.scheduledSources = {}

\* C17: the text emitted for a role when the turn-complete signal of message
\* number n is handled holds no fragment of a message that arrived after
\* message n, also when the handling of message n was suspended in an audio
\* decode while later messages were handled.
C17_FlushAtomic ==
  lastTurn.msg # 0 =>
    /\ Trim(lastTurn.user) # <<>> => \A n \in lastTurn.from.user : n <= lastTurn.msg
    /\ Trim(lastTurn.model) # <<>> => \A n \in lastTurn.from.model : n <= lastTurn.msg

\* payload p arrived before payload q: in an earlier message, or earlier in
\* the same message
ArrivedBefore(p, q) == p[1] < q[1] \/ (p[1] = q[1] /\ p[2] < q[2])

\* C18: of two audio payloads scheduled one after the other on the same
\* sink with no interruption in between, the one scheduled first (it starts
\* and ends before the other starts) is the one that arrived first.
C18_ArrivalOrder ==
  (lastSource.n >= 2 /\ lastSource.ctx = lastSource.prevCtx /\ ~lastSource.afterFlush) =>
    /\ lastSource.prevEnd <= lastSource.start
    /\ ArrivedBefore(lastSource.prevPayload, lastSource.payload)

\* C19: a message that carries the interruption signal together with other
\* events has those handled too: its user fragment is appended to the user's
\* buffer, its turn-complete signal flushes the turn, and its audio payload
\* is given to the decoder.
C19_EventsNonExclusive ==
  [][\A k \in Attempts, m \in Messages :
       (m.interrupted /\ Message(k, m)) =>
         /\ (Truthy(m.inText) /\ ~m.turnComplete) =>
              this'.currentInputTranscription =
                this.currentInputTranscription \o m.inText
         /\ m.turnComplete => lastTurn'.msg = hist'.msgs
         /\ (\E j \in DOMAIN m.parts : Decodable(World, m, j)) =>
              \E t \in tasks' : t.kind = "message" /\ t.id = hist'.msgs]_vars

\* C20: handling an interruption signal empties the model's transcript
\* buffer with no onTranscript call, and leaves the user's buffer as it is.
C20_InterruptionAbandonsOutput ==
  [][hist'.msgs # hist.msgs =>
       \A k \in Attempts, m \in Messages :
         (m.interrupted /\ Message(k, m)) =>
           /\ this'.currentOutputTranscription = <<>>
           /\ this'.currentInputTranscription = this.currentInputTranscription
           /\ lastTurn' = lastTurn]_vars

\* an interruption discarded partial text of the model while the user's
\* buffer held text, which is still there and was never emitted
C20_Witness ==
  /\ since.dropped
  /\ this.currentOutputTranscription = <<>>
  /\ this.currentInputTranscription = <<"a">>
  /\ lastTurn.msg = 0

\* the place of a release step in the prescribed teardown order
Rank(s) ==
  CASE s = "inactive" -> 1
    [] s = "transport" -> 2
    [] s = "mic" -> 3
    [] s = "capture" -> 4
    [] s = "sink" -> 5
    [] s = "reset" -> 6
    [] s = "tap" -> 7

\* C21: on every teardown path the release steps a teardown performs come in
\* the order: session marked inactive, transport closed, microphone
\* released, capture pipeline released, output sink released, scheduled set
\* and cursor reset, analysis tap nulled; no step of a later place is
\* performed before a step of an earlier place.
C21_TeardownOrder ==
  \A i, j \in DOMAIN trail : i < j => Rank(trail[i]) <= Rank(trail[j])

\* the session was active and has been marked inactive
WentInactive == ~this.isConnected /\ \E k \in Attempts : calls["onOpen"][k] > 0

\* C22: once the session has been marked inactive, handling a message (or
\* the rest of one) appends no fragment and emits no transcript: both
\* transcript buffers and the record of emissions stay as they are.
C22_InactiveStopsTranscripts ==
  [][WentInactive =>
       /\ this'.currentInputTranscription = this.currentInputTranscription
       /\ this'.currentOutputTranscription = this.currentOutputTranscription
       /\ lastTurn' # lastTurn => lastTurn'.emitted = <<>>]_vars

\* C23: when a teardown has completed (the step that ends cleanup()), the
\* scheduled set is empty, the cursor is back at its initial value 0 and
\* both transcript buffers are empty.
C23_TeardownResetsAll ==
  [][CleanupTailStep =>
       /\ this'.scheduledSources = {}
       /\ this'.nextStartTime = 0
       /\ this'.currentInputTranscription = <<>>
       /\ this'.currentOutputTranscription = <<>>]_vars

\* this step is taken by a callback of a session that a later connect()
\* has superseded: its onclose, its rejection handler, or the cleanup()
\* either of them started
SupersededStep ==
  \E k \in Attempts :
    /\ k < hist.attempts
    /\ \/ CloseEvent(k)
       \/ Reject(k)
       \/ \E t \in tasks : /\ t.id = k
                           /\ t.kind \in {"onclose", "onerror", "catch"}
                           /\ Resume(t)

\* C24: after connect() was called again on the same service, a callback of
\* the superseded session does not mark the new session inactive, does not
\* release the new session's microphone, audio contexts or analysis tap,
\* and does not deliver onClose or onError for the new attempt.
C24_SupersededIsInert ==
  [][hist.attempts > 1 /\ SupersededStep =>
       LET n == hist.attempts IN
       /\ this.isConnected => this'.isConnected
       /\ mic'[n] = mic[n]
       /\ ctxOut'[n] = ctxOut[n]
       /\ ctxIn'[n] = ctxIn[n]
       /\ this.outputAnalyser = n => this'.outputAnalyser = n
       /\ calls'["onClose"][n] = calls["onClose"][n]
       /\ calls'["onError"][n] = calls["onError"][n]]_vars

\* C25: an audio payload that arrived before an interruption is not
\* scheduled once that interruption has been handled: a source that enters
\* the scheduled set plays a payload of a message that came after the last
\* interruption.
C25_NoPlaybackAcrossInterruption ==
  [][lastSource'.n # lastSource.n => lastSource'.payload[1] > hist.flushAt]_vars

\* C26: whenever the output sink has been released (audioContext is null)
\* the scheduled set is empty and the cursor is at its reset value 0; and a
\* payload whose decode completes on a released sink schedules nothing and
\* raises no error: the handler of its message runs on to its end.
C26_ReleasedSinkIsClean ==
  /\ [](this.audioContext = Null =>
          this.scheduledSources = {} /\ this.nextStartTime = 0)
  /\ [][this.audioContext = Null =>
          \A t \in tasks \ tasks' : t.pc = "decode" =>
             /\ this' = MessageTail(World, t.m, t.id).this
             /\ nodes' = nodes
             /\ lastSource' = lastSource
             /\ tasks' = tasks \ {t}]_vars

\* the decode of a payload was in flight during cleanup() and resolved after
\* the sink had been released: nothing is scheduled
C26_Witness ==
  /\ since.lost
  /\ this.audioContext = Null
  /\ this.scheduledSources = {}
  /\ this.nextStartTime = 0
  /\ \A t \in tasks : t.pc # "decode"

====
